---- MODULE Spec2Model ----
(***************************************************************************)
(* The ant colony of src/dualcore/ants.py: class Colony (creation,         *)
(* return_to_nest, explore, advance) driven by the simulation worker's     *)
(* main loop (advance, then the field's evaporation).                      *)
(*                                                                         *)
(* Positions are pairs <<row, col>>.  Arrays indexed by ant are functions  *)
(* over 0..nb_ants-1, historic_path[i] is a function over 0..max_life.     *)
(* The maze, the pheromone field and the direction constants live in       *)
(* modules of the repository that are not part of src/ (maze.py,           *)
(* pheromone.py, direction.py); they are modelled at their interface.      *)
(***************************************************************************)
EXTENDS Integers, Sequences, FiniteSets, TLC

(***************************************************************************)
(* Bounds of the model.                                                    *)
(***************************************************************************)
MaxAnts == 2
MaxLifeCfg == 5
MaxTicks == 4
MaxPher == 2
MaxRetry == 40

(***************************************************************************)
(* Constants of direction.py and maze.py.                                  *)
(***************************************************************************)
DIR_NONE == -1
DIR_NORTH == 0
DIR_EAST == 1
DIR_WEST == 2
DIR_SOUTH == 3

NORTH == 1
EAST == 2
SOUTH == 4
WEST == 8

UNLOADED == FALSE
LOADED == TRUE

\* exploration_coefs = 0.
exploration_coefs == 0

\* The modulus and the multiplier of the seed recurrence.
Modulus == 2147483647
Multiplier == 16807

VARIABLES
    size_laby,      \* <<rows, cols>> of the maze
    a_maze,         \* the maze: a_maze[r+1][c+1] is the exit bit mask of cell (r, c)
    pheromon,       \* the pheromone field with its ghost cells: [(0..H+1) \X (0..W+1) -> level]
    seeds, is_loaded, max_life, age, historic_path, directions,   \* the colony's arrays
    food_counter,   \* the worker's food counter
    in_nest, ind_exploring_ants, ind_following_ants, ind_dying_ants, ants_at_food,
    valid_moves,    \* locals of the last call of advance
    retries,        \* the retry loop of the last call: its state at entry (line 130), then
                    \* after each iteration (line 157)
    raised,         \* TRUE once a call of advance ended with an exception
    pc,             \* the worker's position in its main loop
    ticks,          \* number of calls of advance so far
    mise_a_jour,    \* what ants.returns() handed the worker (line 362): three references
    receiver_writes,\* number of writes made through these references by their holder
    nbp,            \* the number of processes of the communicator (line 13)
    eager,          \* TRUE when comm.send returns before the message is received
    chan,           \* chan[r]: the messages rank r has sent to rank 0, not yet received
    pc0,            \* the display's (rank 0) position
    frame,          \* frame[tag]: the last message of that tag the display received
    nb_frames,      \* the display's number of frames, its `counter` (line 355)
    extra           \* position and number of sends of a rank above 1

colony_vars == <<seeds, is_loaded, max_life, age, historic_path, directions>>
local_vars == <<in_nest, ind_exploring_ants, ind_following_ants, ind_dying_ants,
                ants_at_food, valid_moves, retries>>
vars == <<size_laby, a_maze, pheromon, seeds, is_loaded, max_life, age, historic_path,
          directions, food_counter, in_nest, ind_exploring_ants, ind_following_ants,
          ind_dying_ants, ants_at_food, valid_moves, retries, raised, pc, ticks,
          mise_a_jour, receiver_writes, nbp, eager, chan, pc0, frame, nb_frames, extra>>
comm_vars == <<nbp, eager, chan, pc0, frame, nb_frames, extra>>

(***************************************************************************)
(* seed = (16807 * seed) mod 2147483647.  The product does not fit the     *)
(* 32-bit integers of the model checker (the code uses int64), so the same *)
(* value is computed by the decomposition 2147483647 = 16807*127773 + 2836 *)
(* which is exact for every seed in 0..2147483646.                         *)
(***************************************************************************)
NextSeed(s) ==
    LET q == Modulus \div Multiplier
        r == Modulus % Multiplier
        t == Multiplier * (s % q) - r * (s \div q)
    IN  IF t >= 0 THEN t ELSE t + Modulus

(***************************************************************************)
(* The driver's configuration (lines 241-247).                             *)
(***************************************************************************)
Rows == size_laby[1]
Cols == size_laby[2]
pos_food == <<Rows - 1, Cols - 1>>
pos_nest == <<0, 0>>

(***************************************************************************)
(* numpy indexing of an axis of length n: indices -n..n-1 are accepted,    *)
(* a negative one counts from the end, anything else is an IndexError.     *)
(***************************************************************************)
NpOk(k, n) == -n <= k /\ k < n
NpIdx(k, n) == IF k < 0 THEN k + n ELSE k

\* the_maze.maze[pos[0], pos[1]]
MazeOk(pos) == NpOk(pos[1], Rows) /\ NpOk(pos[2], Cols)
MazeAt(pos) == a_maze[NpIdx(pos[1], Rows) + 1][NpIdx(pos[2], Cols) + 1]

\* np.bitwise_and(cell, bit) > 0, for bit a power of two
HasExit(cell, bit) == (cell \div bit) % 2 = 1

\* pheromones.pheromon[p[0], p[1]] on the (Rows+2) x (Cols+2) array
PherAt(field, p) == field[<<NpIdx(p[1], Rows + 2), NpIdx(p[2], Cols + 2)>>]

\* historic_path[i, k, :] on an ant's row path of the array
PathAt(path, k) == path[NpIdx(k, Cardinality(DOMAIN path))]

Max2(a, b) == IF a >= b THEN a ELSE b

(***************************************************************************)
(* Colony.__init__                                                         *)
(***************************************************************************)
\* (variant: the seeds start at 0)
InitSeedsFromZero(nb_ants) == [i \in 0..(nb_ants - 1) |-> NextSeed(i)]

\* seeds = arange(1, nb_ants+1), then one step of the recurrence (lines 31, 36)
InitSeeds(nb_ants) == [i \in 0..(nb_ants - 1) |-> NextSeed(i + 1)]

\* max_life - int32(max_life*(seed/2147483647.))//4   (lines 38-39)
InitMaxLife(ml, seed) == ml - ((ml * seed) \div Modulus) \div 4

\* historic_path = zeros((nb_ants, max_life+1, 2)), index 0 set to pos_init (lines 43-45)
InitPath(nb_ants, ml, pos_init) ==
    [i \in 0..(nb_ants - 1) |-> [k \in 0..ml |-> IF k = 0 THEN pos_init ELSE <<0, 0>>]]

NewColony(nb_ants, pos_init, ml) ==
    LET sd == InitSeeds(nb_ants)
    IN  [seeds |-> sd,
         is_loaded |-> [i \in 0..(nb_ants - 1) |-> UNLOADED],
         max_life |-> [i \in 0..(nb_ants - 1) |-> InitMaxLife(ml, sd[i])],
         age |-> [i \in 0..(nb_ants - 1) |-> 0],
         historic_path |-> InitPath(nb_ants, ml, pos_init),
         directions |-> [i \in 0..(nb_ants - 1) |-> DIR_NONE]]

(***************************************************************************)
(* Colony.return_to_nest (lines 50-71)                                     *)
(***************************************************************************)
\* (variant: line 59 takes one off the age of every ant, self.age[:] -= 1)
ReturnToNestAgesAll(c, loaded_ants, nest, counter) ==
    LET age1 == [i \in DOMAIN c.age |-> c.age[i] - 1]
        arrived == {i \in loaded_ants : PathAt(c.historic_path[i], age1[i]) = nest}
    IN  [c |-> [c EXCEPT !.age = [i \in DOMAIN c.age |-> IF i \in arrived THEN 0 ELSE age1[i]],
                         !.is_loaded = [i \in DOMAIN c.age |->
                                           IF i \in arrived THEN UNLOADED ELSE c.is_loaded[i]]],
         in_nest |-> arrived,
         food_counter |-> counter + Cardinality(arrived)]

\* (variant: no ant is ever found to have arrived at the nest)
ReturnToNestNeverArrives(c, loaded_ants, nest, counter) ==
    [c |-> [c EXCEPT !.age = [i \in DOMAIN c.age |->
                                 IF i \in loaded_ants THEN c.age[i] - 1 ELSE c.age[i]]],
     in_nest |-> {},
     food_counter |-> counter]

\* (variant: the counter goes up by one, however many ants arrive)
ReturnToNestCountsOne(c, loaded_ants, nest, counter) ==
    LET age1 == [i \in DOMAIN c.age |-> IF i \in loaded_ants THEN c.age[i] - 1 ELSE c.age[i]]
        arrived == {i \in loaded_ants : PathAt(c.historic_path[i], age1[i]) = nest}
    IN  [c |-> [c EXCEPT !.age = [i \in DOMAIN c.age |-> IF i \in arrived THEN 0 ELSE age1[i]],
                         !.is_loaded = [i \in DOMAIN c.age |->
                                           IF i \in arrived THEN UNLOADED ELSE c.is_loaded[i]]],
         in_nest |-> arrived,
         food_counter |-> IF arrived # {} THEN counter + 1 ELSE counter]

ReturnToNest(c, loaded_ants, nest, counter) ==
    LET age1 == [i \in DOMAIN c.age |-> IF i \in loaded_ants THEN c.age[i] - 1 ELSE c.age[i]]
        arrived == {i \in loaded_ants : PathAt(c.historic_path[i], age1[i]) = nest}
    IN  [c |-> [c EXCEPT !.age = [i \in DOMAIN c.age |-> IF i \in arrived THEN 0 ELSE age1[i]],
                         !.is_loaded = [i \in DOMAIN c.age |->
                                           IF i \in arrived THEN UNLOADED ELSE c.is_loaded[i]]],
         in_nest |-> arrived,
         food_counter |-> counter + Cardinality(arrived)]

(***************************************************************************)
(* Colony.explore (lines 73-193)                                           *)
(***************************************************************************)
\* the four readings of an ant at pos: neighbour level times the exit flag (lines 98-114)
NorthPheromone(field, pos) ==
    IF HasExit(MazeAt(pos), NORTH) THEN PherAt(field, <<pos[1], pos[2] + 1>>) ELSE 0
EastPheromone(field, pos) ==
    IF HasExit(MazeAt(pos), EAST) THEN PherAt(field, <<pos[1] + 1, pos[2] + 2>>) ELSE 0
\* (variant: the south reading is not multiplied by has_south_exit)
SouthPheromoneIgnoresExit(field, pos) == PherAt(field, <<pos[1] + 2, pos[2] + 1>>)
SouthPheromone(field, pos) ==
    IF HasExit(MazeAt(pos), SOUTH) THEN PherAt(field, <<pos[1] + 2, pos[2] + 1>>) ELSE 0
WestPheromone(field, pos) ==
    IF HasExit(MazeAt(pos), WEST) THEN PherAt(field, <<pos[1] + 1, pos[2]>>) ELSE 0

\* lines 116-118
MaxPheromones(field, pos) ==
    Max2(Max2(Max2(NorthPheromone(field, pos), EastPheromone(field, pos)),
              SouthPheromone(field, pos)),
         WestPheromone(field, pos))

\* lines 129-130
NbExits(cell) ==
    (IF HasExit(cell, NORTH) THEN 1 ELSE 0) + (IF HasExit(cell, EAST) THEN 1 ELSE 0)
    + (IF HasExit(cell, SOUTH) THEN 1 ELSE 0) + (IF HasExit(cell, WEST) THEN 1 ELSE 0)

\* choices <= exploration_coefs, with choices = seed / 2147483647.   (lines 121, 125)
ChoiceLeqCoef(seed) == seed <= exploration_coefs * Modulus

\* (variant: the draw is not checked against the exits of the cell)
NewPosThroughWalls(old_pos, dir) ==
    <<old_pos[1] - (IF dir = DIR_NORTH THEN 1 ELSE 0) + (IF dir = DIR_SOUTH THEN 1 ELSE 0),
      old_pos[2] - (IF dir = DIR_WEST THEN 1 ELSE 0) + (IF dir = DIR_EAST THEN 1 ELSE 0)>>

\* lines 138-146: the cell a draw of direction dir leads to from old_pos
NewPos(old_pos, dir) ==
    LET cell == MazeAt(old_pos)
        col1 == old_pos[2] - (IF dir = DIR_WEST /\ HasExit(cell, WEST) THEN 1 ELSE 0)
        col2 == col1 + (IF dir = DIR_EAST /\ HasExit(cell, EAST) THEN 1 ELSE 0)
        row1 == old_pos[1] - (IF dir = DIR_NORTH /\ HasExit(cell, NORTH) THEN 1 ELSE 0)
        row2 == row1 + (IF dir = DIR_SOUTH /\ HasExit(cell, SOUTH) THEN 1 ELSE 0)
    IN  <<row2, col2>>

\* (variant: a reversal is accepted everywhere)
ValidMoveAnyReversal(old_pos, dir, prev_dir) == NewPos(old_pos, dir) # old_pos

\* (variant: a reversal is refused everywhere, dead ends included)
ValidMoveNoDeadEnd(old_pos, dir, prev_dir) ==
    /\ NewPos(old_pos, dir) # old_pos
    /\ dir # 3 - prev_dir

\* lines 148-152: the validity test of a draw
ValidMove(old_pos, dir, prev_dir) ==
    /\ NewPos(old_pos, dir) # old_pos
    /\ (dir # 3 - prev_dir \/ NbExits(MazeAt(old_pos)) = 1)

\* the state of the retry loop, and the states it has gone through so far
Logged(trace, st) ==
    [seeds |-> st.seeds, valid_moves |-> st.valid_moves, historic_path |-> st.historic_path,
     directions |-> st.directions, trace |-> Append(trace, st)]

\* lines 148-157: the draws of one iteration are tested and the valid ones committed;
\* st holds seeds, valid_moves, historic_path, directions
Commit(st, ages, to_move, seeds1, ok) ==
    Logged(st.trace,
    [seeds |-> seeds1,
     valid_moves |-> [i \in DOMAIN seeds1 |->
                         IF i \in to_move THEN (IF i \in ok THEN 1 ELSE 0)
                         ELSE st.valid_moves[i]],
     historic_path |-> [i \in DOMAIN seeds1 |->
                         IF i \in ok
                         THEN [st.historic_path[i] EXCEPT
                                  ![ages[i] + 1] = NewPos(PathAt(st.historic_path[i], ages[i]),
                                                          seeds1[i] % 4)]
                         ELSE st.historic_path[i]],
     directions |-> [i \in DOMAIN seeds1 |-> IF i \in ok THEN seeds1[i] % 4 ELSE st.directions[i]]])

\* lines 133-152: the seeds advance (line 134), each ant still to move draws seed mod 4
Draw(st, ages, to_move, seeds1) ==
    Commit(st, ages, to_move, seeds1,
           {i \in to_move : ValidMove(PathAt(st.historic_path[i], ages[i]), seeds1[i] % 4,
                                      st.directions[i])})

\* lines 131-157: the retry loop.  fuel bounds the number of iterations the model follows.
RECURSIVE RetryLoop(_, _, _, _)
RetryLoop(st, exploring, ages, fuel) ==
    IF fuel = 0 \/ \A i \in exploring : st.valid_moves[i] = 1
    THEN st
    ELSE RetryLoop(Draw(st, ages, {i \in exploring : st.valid_moves[i] = 0},
                        [i \in DOMAIN st.seeds |-> NextSeed(st.seeds[i])]),
                   exploring, ages, fuel - 1)

\* (variant: one direction only, the first that reaches the maximum)
FollowPosFirstMax(field, pos) ==
    LET m == MaxPheromones(field, pos)
    IN  IF EastPheromone(field, pos) = m THEN <<pos[1], pos[2] + 1>>
        ELSE IF WestPheromone(field, pos) = m THEN <<pos[1], pos[2] - 1>>
        ELSE IF NorthPheromone(field, pos) = m THEN <<pos[1] - 1, pos[2]>>
        ELSE <<pos[1] + 1, pos[2]>>

\* lines 163-174: the cell a following ant moves to
FollowPos(field, pos) ==
    LET m == MaxPheromones(field, pos)
        col1 == pos[2] + (IF EastPheromone(field, pos) = m THEN 1 ELSE 0)
        col2 == col1 - (IF WestPheromone(field, pos) = m THEN 1 ELSE 0)
        row1 == pos[1] - (IF NorthPheromone(field, pos) = m THEN 1 ELSE 0)
        row2 == row1 + (IF SouthPheromone(field, pos) = m THEN 1 ELSE 0)
    IN  <<row2, col2>>

\* the state of a colony as a record, and the locals a call of advance leaves behind
Colony == [seeds |-> seeds, is_loaded |-> is_loaded, max_life |-> max_life, age |-> age,
           historic_path |-> historic_path, directions |-> directions]

NoMoves(c) == [i \in DOMAIN c.seeds |-> 0]

\* What explore hands back: the colony, the locals, and a status that is "ok" when
\* the call returns, "raised" when an index is out of range at lines 92-114, "looping"
\* when the retry loop has not ended.
ExploreResult(c, exploring, following, dying, at_food, moves, trace, status) ==
    [c |-> c, exploring |-> exploring, following |-> following, dying |-> dying,
     at_food |-> at_food, valid_moves |-> moves, retries |-> trace, status |-> status]

\* (variant: the death reset leaves the direction as it was, line 186 missing)
FoodPickupKeepsDirection(c, unloaded_ants, exploring, following, st1, dying, age3, path3, at_food) ==
    ExploreResult([seeds |-> st1.seeds,
                   is_loaded |-> [i \in DOMAIN c.seeds |->
                                     IF i \in at_food THEN LOADED ELSE c.is_loaded[i]],
                   max_life |-> c.max_life, age |-> age3, historic_path |-> path3,
                   directions |-> st1.directions],
                  exploring, following, dying, at_food, st1.valid_moves, st1.trace, "ok")

\* lines 191-193: the ants on the food become loaded
FoodPickup(c, unloaded_ants, exploring, following, st1, dying, age3, path3, at_food) ==
    ExploreResult([seeds |-> st1.seeds,
                   is_loaded |-> [i \in DOMAIN c.seeds |->
                                     IF i \in at_food THEN LOADED ELSE c.is_loaded[i]],
                   max_life |-> c.max_life, age |-> age3, historic_path |-> path3,
                   directions |-> [i \in DOMAIN c.seeds |->
                                      IF i \in dying THEN DIR_NONE ELSE st1.directions[i]]],
                  exploring, following, dying, at_food, st1.valid_moves, st1.trace, "ok")

\* lines 189-190: the unloaded ants whose current position is the food
FoodCheck(c, unloaded_ants, exploring, following, st1, dying, age3, path3) ==
    FoodPickup(c, unloaded_ants, exploring, following, st1, dying, age3, path3,
               {i \in unloaded_ants : PathAt(path3[i], age3[i]) = pos_food})

\* lines 181-186: the ants whose age equals max_life restart on the nest
Death(c, unloaded_ants, exploring, following, st1, path2, age2, dying) ==
    FoodCheck(c, unloaded_ants, exploring, following, st1, dying,
              [i \in DOMAIN c.seeds |-> IF i \in dying THEN 0 ELSE age2[i]],
              [i \in DOMAIN c.seeds |->
                  IF i \in dying THEN [path2[i] EXCEPT ![0] = pos_nest] ELSE path2[i]])

\* lines 177-181: the unloaded ants age by one
Aging(c, unloaded_ants, exploring, following, st1, path2, age2) ==
    Death(c, unloaded_ants, exploring, following, st1, path2, age2,
          {i \in DOMAIN c.seeds : age2[i] = c.max_life[i]})

\* lines 159-178: the following ants move, unless the retry loop is still running
Follow(c, unloaded_ants, field, old_pos_ants, exploring, following, st1) ==
    IF \E i \in exploring : st1.valid_moves[i] = 0
    THEN ExploreResult([c EXCEPT !.seeds = st1.seeds, !.historic_path = st1.historic_path,
                                 !.directions = st1.directions],
                       exploring, {}, {}, {}, st1.valid_moves, st1.trace, "looping")
    ELSE Aging(c, unloaded_ants, exploring, following, st1,
               [i \in DOMAIN c.seeds |->
                   IF i \in following
                   THEN [st1.historic_path[i] EXCEPT
                            ![c.age[i] + 1] = FollowPos(field, old_pos_ants[i])]
                   ELSE st1.historic_path[i]],
               [i \in DOMAIN c.seeds |-> IF i \in unloaded_ants THEN c.age[i] + 1 ELSE c.age[i]])

\* lines 126-157: the exploring ants draw their moves
Moves(c, unloaded_ants, field, seeds1, old_pos_ants, exploring, following) ==
    Follow(c, unloaded_ants, field, old_pos_ants, exploring, following,
           IF exploring # {}
           THEN RetryLoop(Logged(<<>>, [seeds |-> seeds1, valid_moves |-> NoMoves(c),
                                        historic_path |-> c.historic_path,
                                        directions |-> c.directions]),
                          exploring, c.age, MaxRetry)
           ELSE Logged(<<>>, [seeds |-> seeds1, valid_moves |-> NoMoves(c),
                              historic_path |-> c.historic_path,
                              directions |-> c.directions]))

\* (variant: an ant explores only when both conditions of line 126 hold)
ClassifyBothNeeded(c, unloaded_ants, field, seeds1, old_pos_ants) ==
    IF \E i \in DOMAIN c.seeds : ~MazeOk(old_pos_ants[i])
    THEN ExploreResult([c EXCEPT !.seeds = seeds1], {}, {}, {}, {}, NoMoves(c), <<>>, "raised")
    ELSE Moves(c, unloaded_ants, field, seeds1, old_pos_ants,
               {i \in unloaded_ants :
                   ChoiceLeqCoef(seeds1[i]) /\ MaxPheromones(field, old_pos_ants[i]) = 0},
               {i \in unloaded_ants :
                   ~ChoiceLeqCoef(seeds1[i]) /\ MaxPheromones(field, old_pos_ants[i]) > 0})

\* lines 92-125, 159-160: exits and readings of every ant, then exploring or following
Classify(c, unloaded_ants, field, seeds1, old_pos_ants) ==
    IF \E i \in DOMAIN c.seeds : ~MazeOk(old_pos_ants[i])
    THEN ExploreResult([c EXCEPT !.seeds = seeds1], {}, {}, {}, {}, NoMoves(c), <<>>, "raised")
    ELSE Moves(c, unloaded_ants, field, seeds1, old_pos_ants,
               {i \in unloaded_ants :
                   ChoiceLeqCoef(seeds1[i]) \/ MaxPheromones(field, old_pos_ants[i]) = 0},
               {i \in unloaded_ants :
                   ~ChoiceLeqCoef(seeds1[i]) /\ MaxPheromones(field, old_pos_ants[i]) > 0})

\* (variant: line 88 advances the seed of every ant, loaded or not)
ExploreSeedsArrayWide(c, unloaded_ants, field) ==
    Classify(c, unloaded_ants, field,
             [i \in DOMAIN c.seeds |-> NextSeed(c.seeds[i])],
             [i \in DOMAIN c.seeds |-> PathAt(c.historic_path[i], c.age[i])])

\* lines 88-91: the seeds of the unloaded ants advance, the current positions are read
Explore(c, unloaded_ants, field) ==
    Classify(c, unloaded_ants, field,
             [i \in DOMAIN c.seeds |->
                 IF i \in unloaded_ants THEN NextSeed(c.seeds[i]) ELSE c.seeds[i]],
             [i \in DOMAIN c.seeds |-> PathAt(c.historic_path[i], c.age[i])])

(***************************************************************************)
(* Colony.advance (lines 195-212), up to the marking of the pheromones.    *)
(***************************************************************************)
\* (variant: every ant goes through the explore pass)
EveryAnt(c) == DOMAIN c.seeds

\* lines 196-197
LoadedAnts(c) == {i \in DOMAIN c.seeds : c.is_loaded[i] = LOADED}
UnloadedAnts(c) == {i \in DOMAIN c.seeds : c.is_loaded[i] = UNLOADED}

\* lines 203-212: the positions to mark and what the call hands back
AdvanceResult(counter, ret, exp, new_pos, status) ==
    [c |-> exp.c, in_nest |-> ret.in_nest, exploring |-> exp.exploring,
     following |-> exp.following, dying |-> exp.dying, at_food |-> exp.at_food,
     valid_moves |-> exp.valid_moves, retries |-> exp.retries, status |-> status,
     \* the counter reaches the caller only when the call returns (line 212)
     food_counter |-> IF status = "ok" THEN ret.food_counter ELSE counter,
     marked |-> IF status = "ok"
                THEN {<<NpIdx(new_pos[i][1] + 1, Rows + 2), NpIdx(new_pos[i][2] + 1, Cols + 2)>> :
                          i \in DOMAIN new_pos}
                ELSE {}]

\* lines 203-207: the exits of the new positions are read from the maze
AfterExplore(counter, ret, exp, new_pos) ==
    AdvanceResult(counter, ret, exp, new_pos,
                  IF exp.status = "ok" /\ \E i \in DOMAIN new_pos : ~MazeOk(new_pos[i])
                  THEN "raised" ELSE exp.status)

\* line 203: the new positions
Explored(c, counter, ret, exp) ==
    AfterExplore(counter, ret, exp,
                 [i \in DOMAIN c.seeds |-> PathAt(exp.c.historic_path[i], exp.c.age[i])])

\* lines 200-201
AfterReturn(c, field, counter, ret) ==
    Explored(c, counter, ret,
             IF UnloadedAnts(c) # {} THEN Explore(ret.c, UnloadedAnts(c), field)
             ELSE [c |-> ret.c, exploring |-> {}, following |-> {}, dying |-> {},
                   at_food |-> {}, valid_moves |-> NoMoves(c), retries |-> <<>>,
                   status |-> "ok"])

AdvanceColony(c, field, counter) ==
    \* lines 198-199
    AfterReturn(c, field, counter,
                IF LoadedAnts(c) # {} THEN ReturnToNest(c, LoadedAnts(c), pos_nest, counter)
                ELSE [c |-> c, in_nest |-> {}, food_counter |-> counter])

(***************************************************************************)
(* The pheromone field (pheromone.py).  Levels are ranks 0..MaxPher: the   *)
(* colony only compares levels with each other and with 0.                 *)
(***************************************************************************)
PadCells == (0..(Rows + 1)) \X (0..(Cols + 1))
FoodCell == <<pos_food[1] + 1, pos_food[2] + 1>>

\* Pheromon.__init__: nothing but the food cell carries pheromone
InitPheromon(rows, cols) ==
    [p \in (0..(rows + 1)) \X (0..(cols + 1)) |-> IF p = <<rows, cols>> THEN MaxPher ELSE 0]

\* Pheromon.mark on every cell of marked: each gets a level the field computes
Marked(field, marked, levels) ==
    [p \in DOMAIN field |-> IF p \in marked THEN levels[p] ELSE field[p]]

\* Pheromon.do_evaporation: every level decays by the same factor, which keeps their
\* order, and the food cell is set back to the highest level
DoEvaporation(field) == [field EXCEPT ![FoodCell] = MaxPher]

(***************************************************************************)
(* The mazes the model runs on: exit masks by row.                         *)
(*   Ring2x2     all four cells joined in a ring                           *)
(*   Tree2x2     the ring without the passage between (0,1) and the food   *)
(*   Corridor1x3 nest - cell - food in a row                               *)
(*   DeadEnd3x2  cell (0,1) has a south exit only, away from the food      *)
(***************************************************************************)
Ring2x2 == << <<6, 12>>, <<3, 9>> >>
Tree2x2 == << <<6, 8>>, <<3, 8>> >>
Corridor1x2 == << <<2, 8>> >>
Corridor1x3 == << <<2, 10, 8>> >>
DeadEnd3x2 == << <<4, 4>>, <<7, 9>>, <<3, 8>> >>
Mazes == {Ring2x2, Tree2x2, Corridor1x2, Corridor1x3, DeadEnd3x2}

(***************************************************************************)
(* The worker (rank > 0): start-up (lines 285-311) and main loop.          *)
(***************************************************************************)
Created(mz, nb_ants, pos_init, ml) ==
    LET c == NewColony(nb_ants, pos_init, ml)
    IN  /\ a_maze = mz
        /\ size_laby = <<Len(mz), Len(mz[1])>>
        /\ pheromon = InitPheromon(Len(mz), Len(mz[1]))
        /\ seeds = c.seeds
        /\ is_loaded = c.is_loaded
        /\ max_life = c.max_life
        /\ age = c.age
        /\ historic_path = c.historic_path
        /\ directions = c.directions
        /\ food_counter = 0
        /\ in_nest = {}
        /\ ind_exploring_ants = {}
        /\ ind_following_ants = {}
        /\ ind_dying_ants = {}
        /\ ants_at_food = {}
        /\ valid_moves = NoMoves(c)
        /\ retries = <<>>
        /\ raised = FALSE
        /\ ticks = 0
        /\ mise_a_jour = <<>>
        /\ receiver_writes = 0

\* The communicator of n processes before any message is sent.  The display waits for
\* its first message (line 263); a rank above 1 is about to send its first (line 291).
Comm(n, e) ==
    /\ nbp = n
    /\ eager = e
    /\ chan = [r \in 1..(n - 1) |-> <<>>]
    /\ pc0 = "recv8"
    /\ frame = <<>>
    /\ nb_frames = 0
    /\ extra = [pc |-> "send8", ticks |-> 0, sent |-> 0]

\* The worker on its own, from its first call of advance (line 361) on: what it sends
\* (lines 364-370) are copies that leave its state alone, and SpecComm follows them.
InitWith(mz, nb_ants, pos_init, ml) ==
    /\ Created(mz, nb_ants, pos_init, ml)
    /\ pc = "advance"
    /\ Comm(2, TRUE)

Init ==
    \E mz \in Mazes, nb_ants \in 1..MaxAnts, ml \in 1..MaxLifeCfg :
        InitWith(mz, nb_ants, <<0, 0>>, ml)

\* line 217: returns hands out the colony's own arrays, each named here by its attribute
Returns == <<[array |-> "directions"], [array |-> "historic_path"], [array |-> "age"]>>

\* lines 361-362: food_counter = ants.advance(a_maze, pos_food, pos_nest, pherom,
\* food_counter), then mise_a_jour = ants.returns(); the worker goes on at `then`
AdvanceTo(then) ==
    /\ pc = "advance"
    /\ ticks < MaxTicks
    /\ \E r \in {AdvanceColony(Colony, pheromon, food_counter)} :
           /\ seeds' = r.c.seeds
           /\ is_loaded' = r.c.is_loaded
           /\ max_life' = r.c.max_life
           /\ age' = r.c.age
           /\ historic_path' = r.c.historic_path
           /\ directions' = r.c.directions
           /\ food_counter' = r.food_counter
           /\ in_nest' = r.in_nest
           /\ ind_exploring_ants' = r.exploring
           /\ ind_following_ants' = r.following
           /\ ind_dying_ants' = r.dying
           /\ ants_at_food' = r.at_food
           /\ valid_moves' = r.valid_moves
           /\ retries' = r.retries
           /\ raised' = (r.status = "raised")
           /\ pc' = CASE r.status = "ok" -> then
                      [] r.status = "raised" -> "crashed"
                      [] OTHER -> "retry"
           /\ mise_a_jour' = IF r.status = "ok" THEN Returns ELSE mise_a_jour
           /\ \E levels \in [r.marked -> 0..MaxPher] :
                  pheromon' = Marked(pheromon, r.marked, levels)
    /\ ticks' = ticks + 1
    /\ UNCHANGED <<size_laby, a_maze, receiver_writes, comm_vars>>

Advance == AdvanceTo("evaporate")

\* line 373: pherom.do_evaporation(pos_food); the worker goes on at `then`
EvaporateTo(then) ==
    /\ pc = "evaporate"
    /\ pheromon' = DoEvaporation(pheromon)
    /\ pc' = then
    /\ UNCHANGED <<size_laby, a_maze, colony_vars, local_vars, food_counter, raised, ticks,
                   mise_a_jour, receiver_writes, comm_vars>>

Evaporate == EvaporateTo("advance")

Next == Advance \/ Evaporate

Spec == Init /\ [][Next]_vars

(***************************************************************************)
(* The same worker over a colony created with a position that is not a     *)
(* cell of the maze: Colony(nb_ants, pos_init, max_life) accepts any       *)
(* pos_init, one row or column beyond the maze on either side here.        *)
(***************************************************************************)
OutsidePositions(mz) ==
    {p \in (-1..Len(mz)) \X (-1..Len(mz[1])) :
        ~(p[1] \in 0..(Len(mz) - 1) /\ p[2] \in 0..(Len(mz[1]) - 1))}

InitOutside ==
    \E mz \in Mazes, nb_ants \in 1..MaxAnts, ml \in 1..MaxLifeCfg :
        \E pos_init \in OutsidePositions(mz) : InitWith(mz, nb_ants, pos_init, ml)

SpecOutside == InitOutside /\ [][Next]_vars

(***************************************************************************)
(* The worker with a holder of what returns() handed out (mise_a_jour,     *)
(* line 362) that writes into it between two steps of the main loop, as a  *)
(* presentation layer given these arrays could.  An element of mise_a_jour *)
(* is either one of the colony's own arrays, [array |-> its attribute], or *)
(* an array of its own, [copy |-> its value].                              *)
(***************************************************************************)
MaxWrites == 1

IsAlias(ref) == "array" \in DOMAIN ref

\* directions_recv[i] = dir
WriteDirection(i, dir) ==
    IF IsAlias(mise_a_jour[1])
    THEN /\ directions' = [directions EXCEPT ![i] = dir]
         /\ UNCHANGED <<mise_a_jour, historic_path, age>>
    ELSE /\ mise_a_jour' = [mise_a_jour EXCEPT ![1].copy[i] = dir]
         /\ UNCHANGED <<directions, historic_path, age>>

\* historic_path_recv[i, age_recv[i], :] = cell
WritePath(i, cell) ==
    IF IsAlias(mise_a_jour[2])
    THEN /\ historic_path' = [historic_path EXCEPT ![i][age[i]] = cell]
         /\ UNCHANGED <<mise_a_jour, directions, age>>
    ELSE /\ mise_a_jour' = [mise_a_jour EXCEPT ![2].copy[i][age[i]] = cell]
         /\ UNCHANGED <<directions, historic_path, age>>

\* age_recv[i] = a
WriteAge(i, a) ==
    IF IsAlias(mise_a_jour[3])
    THEN /\ age' = [age EXCEPT ![i] = a]
         /\ UNCHANGED <<mise_a_jour, directions, historic_path>>
    ELSE /\ mise_a_jour' = [mise_a_jour EXCEPT ![3].copy[i] = a]
         /\ UNCHANGED <<directions, historic_path, age>>

ReceiverWrites ==
    /\ mise_a_jour # <<>>
    /\ receiver_writes < MaxWrites
    /\ \E i \in DOMAIN seeds :
           \/ \E dir \in {DIR_NORTH, DIR_EAST, DIR_WEST, DIR_SOUTH} : WriteDirection(i, dir)
           \/ \E cell \in (0..(Rows - 1)) \X (0..(Cols - 1)) : WritePath(i, cell)
           \* an age an unloaded ant can have
           \/ is_loaded[i] = UNLOADED /\ \E a \in 0..(max_life[i] - 1) : WriteAge(i, a)
    /\ receiver_writes' = receiver_writes + 1
    /\ UNCHANGED <<size_laby, a_maze, pheromon, seeds, is_loaded, max_life, food_counter,
                   local_vars, raised, pc, ticks, comm_vars>>

NextReceiver == Advance \/ Evaporate \/ ReceiverWrites

SpecReceiver == Init /\ [][NextReceiver]_vars

(***************************************************************************)
(* The processes of the communicator.  Rank 0 displays, every rank above 0 *)
(* runs the worker's code and sends to rank 0; rank 0 receives from rank 1 *)
(* only.  comm.send pickles its argument when it is called, so a message   *)
(* holds the values of that moment; `tick` records how many calls of       *)
(* advance the sender had completed by then.  Messages from one sender are *)
(* received in the order sent among those of the same tag.  A send either  *)
(* returns at once (eager) or when rank 0 has reached the matching receive.*)
(***************************************************************************)
\* the worker's sends before its loop (lines 291, 314-317) and its loop (lines 361-373)
WorkerStart == <<"send8", "send1", "send2", "send3", "send4">>
\* (variant: the pheromone map is sent before the call of advance)
WorkerLoopSendsFirst == <<"send7", "advance", "send6", "send5", "evaporate">>
\* (variant: the snapshot is sent before the pheromone map)
WorkerLoopSwapped == <<"advance", "send6", "send7", "send5", "evaporate">>
WorkerLoop == <<"advance", "send7", "send6", "send5", "evaporate">>
\* the display's receives before its loop (lines 263-276) and in its loop (lines 331-342)
DisplayStart == <<"recv8", "recv1", "recv2", "recv3", "recv4">>
DisplayLoop == <<"recv7", "recv6", "recv5">>

\* the tag of a send or of a receive
Tag(p) ==
    CASE p \in {"send8", "recv8"} -> 8 [] p \in {"send1", "recv1"} -> 1
      [] p \in {"send2", "recv2"} -> 2 [] p \in {"send3", "recv3"} -> 3
      [] p \in {"send4", "recv4"} -> 4 [] p \in {"send7", "recv7"} -> 7
      [] p \in {"send6", "recv6"} -> 6 [] p \in {"send5", "recv5"} -> 5

IsSend(p) == p \in {"send8", "send1", "send2", "send3", "send4", "send7", "send6", "send5"}

\* the statement after p: the next one of the start-up, then the loop, round and round
Index(order, p) == CHOOSE k \in 1..Len(order) : order[k] = p
After(start, loop, p) ==
    IF \E k \in 1..Len(start) : start[k] = p
    THEN IF Index(start, p) < Len(start) THEN start[Index(start, p) + 1] ELSE loop[1]
    ELSE loop[(Index(loop, p) % Len(loop)) + 1]
WorkerAfter(p) == After(WorkerStart, WorkerLoop, p)
DisplayAfter(p) == After(DisplayStart, DisplayLoop, p)

\* the array an element of mise_a_jour stands for, as it is now
Held(ref) ==
    IF IsAlias(ref)
    THEN CASE ref.array = "directions" -> directions
           [] ref.array = "historic_path" -> historic_path
           [] ref.array = "age" -> age
    ELSE ref.copy

\* what the worker sends at p
Payload(p) ==
    CASE p = "send8" -> a_maze                 \* maze_send, line 290
      [] p = "send1" -> directions             \* line 314
      [] p = "send2" -> historic_path          \* line 315
      [] p = "send3" -> age                    \* line 316
      [] p = "send4" -> pheromon               \* pheromon_send, line 317
      [] p = "send7" -> pheromon               \* pherom.return_pheromon(), line 365
      [] p = "send6" -> [k \in DOMAIN mise_a_jour |-> Held(mise_a_jour[k])]   \* line 369
      [] p = "send5" -> food_counter           \* line 370

\* rank 0 has reached the receive that matches a send of rank r with this tag
Posted(r, tag) == r = 1 /\ Tag(pc0) = tag /\ chan[1] = <<>>

\* the number of messages of one sender the library holds before its sends wait
MaxInFlight == 5

\* comm.send returns: at once while the library has room for the message, else
\* when rank 0 has reached the matching receive
Returning(r, tag) == (eager /\ Len(chan[r]) < MaxInFlight) \/ Posted(r, tag)

\* comm.send(..., dest=0, tag=...) by rank 1
WorkerSend ==
    /\ nbp >= 2
    /\ IsSend(pc)
    /\ Returning(1, Tag(pc))
    /\ chan' = [chan EXCEPT ![1] = Append(@, [tag |-> Tag(pc), value |-> Payload(pc),
                                              tick |-> ticks])]
    /\ pc' = WorkerAfter(pc)
    /\ UNCHANGED <<size_laby, a_maze, pheromon, colony_vars, local_vars, food_counter, raised,
                   ticks, mise_a_jour, receiver_writes, nbp, eager, pc0, frame, nb_frames,
                   extra>>

WorkerAdvance == nbp >= 2 /\ AdvanceTo(WorkerAfter("advance"))
WorkerEvaporate == nbp >= 2 /\ EvaporateTo(WorkerAfter("evaporate"))

\* the place in queue q of the first message with this tag, 0 when there is none
FirstMatch(q, tag) ==
    IF \E k \in 1..Len(q) : q[k].tag = tag
    THEN CHOOSE k \in 1..Len(q) : q[k].tag = tag /\ \A j \in 1..(k - 1) : q[j].tag # tag
    ELSE 0

Without(q, k) == [j \in 1..(Len(q) - 1) |-> IF j < k THEN q[j] ELSE q[j + 1]]

\* comm.recv(source=1, tag=...) by rank 0; the frame is counted after the last receive
\* of the loop (line 355).  Without a rank 1 nothing ever matches the receive.
DisplayRecv ==
    /\ nbp >= 2
    /\ FirstMatch(chan[1], Tag(pc0)) > 0
    /\ frame' = (Tag(pc0) :> chan[1][FirstMatch(chan[1], Tag(pc0))]) @@ frame
    /\ chan' = [chan EXCEPT ![1] = Without(@, FirstMatch(chan[1], Tag(pc0)))]
    /\ nb_frames' = IF pc0 = DisplayLoop[Len(DisplayLoop)] THEN nb_frames + 1 ELSE nb_frames
    /\ pc0' = DisplayAfter(pc0)
    /\ UNCHANGED <<size_laby, a_maze, pheromon, colony_vars, local_vars, food_counter, raised,
                   pc, ticks, mise_a_jour, receiver_writes, nbp, eager, extra>>

\* the number of calls of advance a rank above 1 is followed for
MaxExtraTicks == 1

\* A rank above 1 runs the worker's code on a colony of its own, built from the same
\* constants; nothing reads that colony, and only the rank's position, its calls of
\* advance and its sends are followed.  Rank 0 never receives from it (source=1).
ExtraStep ==
    /\ nbp >= 3
    /\ IF IsSend(extra.pc)
       THEN /\ Returning(2, Tag(extra.pc))
            /\ chan' = [chan EXCEPT ![2] = Append(@, [tag |-> Tag(extra.pc), value |-> <<>>,
                                                      tick |-> extra.ticks])]
            /\ extra' = [extra EXCEPT !.pc = WorkerAfter(@), !.sent = @ + 1]
       ELSE /\ extra.pc = "advance" => extra.ticks < MaxExtraTicks
            /\ extra' = [extra EXCEPT !.pc = WorkerAfter(@),
                                      !.ticks = IF extra.pc = "advance" THEN @ + 1 ELSE @]
            /\ UNCHANGED chan
    /\ UNCHANGED <<size_laby, a_maze, pheromon, colony_vars, local_vars, food_counter, raised,
                   pc, ticks, mise_a_jour, receiver_writes, nbp, eager, pc0, frame, nb_frames>>

\* line 307: nb_ants = size_laby[0]*size_laby[1]//4
InitComm ==
    \E mz \in Mazes, ml \in 1..MaxLifeCfg :
        /\ Created(mz, (Len(mz) * Len(mz[1])) \div 4, <<0, 0>>, ml)
        /\ pc = WorkerStart[1]
        \* mpirun -np 1, 2 or 3
        /\ \E n \in {1, 2, 3}, e \in BOOLEAN : Comm(n, e)

NextComm == WorkerSend \/ WorkerAdvance \/ WorkerEvaporate \/ DisplayRecv \/ ExtraStep

SpecComm == InitComm /\ [][NextComm]_vars

\* the guard of WorkerAdvance: a call of advance always takes a step (ticks goes up)
AdvanceEnabled == nbp >= 2 /\ pc = "advance" /\ ticks < MaxTicks

\* Every process is a process of the operating system and keeps running: weak fairness
\* of each of their steps.  That of WorkerAdvance is written out, with its guard for
\* ENABLED <<WorkerAdvance>>_vars.
FairSpecComm ==
    /\ SpecComm
    /\ WF_vars(WorkerSend) /\ WF_vars(WorkerEvaporate)
    /\ WF_vars(DisplayRecv) /\ WF_vars(ExtraStep)
    /\ ([]<>~AdvanceEnabled \/ []<><<WorkerAdvance>>_vars)

(***************************************************************************)
(* Properties.                                                             *)
(***************************************************************************)
Ants == DOMAIN seeds
Position(i) == PathAt(historic_path[i], age[i])
InMaze(pos) == pos[1] \in 0..(Rows - 1) /\ pos[2] \in 0..(Cols - 1)

\* C1: after creation and after any number of calls of advance, every ant's age is
\* within 0..max_life: the return pass never takes a loaded ant's age below 0 and the
\* explore pass never leaves an age above max_life.
AgeWithinLife == \A i \in Ants : 0 <= age[i] /\ age[i] <= max_life[i]

\* in the last call an ant died of age while a loaded ant walked back one step
AgeWitness ==
    /\ ind_dying_ants # {}
    /\ \E i \in Ants : is_loaded[i] /\ i \notin ants_at_food

\* every open exit of the maze leads to a cell of the maze
ExitsInBounds ==
    \A r \in 0..(Rows - 1), k \in 0..(Cols - 1) :
        LET cell == MazeAt(<<r, k>>)
        IN  /\ HasExit(cell, NORTH) => r > 0
            /\ HasExit(cell, SOUTH) => r < Rows - 1
            /\ HasExit(cell, WEST) => k > 0
            /\ HasExit(cell, EAST) => k < Cols - 1

\* C2: on a maze whose open exits lead to cells of the maze, every ant's current
\* position historic_path[i][age[i]] is a cell of the maze after any number of ticks,
\* whether the ant explored, followed a single maximum or followed tied maxima.
PositionInMaze == ExitsInBounds => \A i \in Ants : InMaze(Position(i))

\* an ant that followed tied maxima in the last call stands on a cell at the edge
PositionWitness ==
    \E i \in ind_following_ants :
        /\ age[i] > 0
        /\ Position(i)[1] # PathAt(historic_path[i], age[i] - 1)[1]
        /\ Position(i)[2] # PathAt(historic_path[i], age[i] - 1)[2]
        /\ Position(i)[1] = 0

\* a call of advance that returned
Ticked == pc = "advance" /\ ticks' = ticks + 1 /\ pc' \notin {"crashed", "retry"}

\* C3: once an ant is loaded, every tick walks it one step back along its path
\* (age - 1) until, within at most age ticks, it stands on the nest, where it becomes
\* unloaded with age 0 and the food counter goes up by exactly one on its account;
\* it is not reset by death while loaded and its recorded path is left as it was.
RoundTrip ==
    [][Ticked =>
         /\ \A i \in Ants :
                is_loaded[i] =>
                    /\ 1 <= age[i] /\ age[i] < max_life[i]
                    /\ historic_path[i][0] = pos_nest
                    /\ i \notin ind_dying_ants'
                    /\ historic_path'[i] = historic_path[i]
                    /\ \/ /\ is_loaded'[i]
                          /\ age'[i] = age[i] - 1
                          /\ age'[i] >= 1
                          /\ historic_path[i][age'[i]] # pos_nest
                       \/ /\ ~is_loaded'[i]
                          /\ age'[i] = 0
                          /\ historic_path[i][age[i] - 1] = pos_nest
         /\ food_counter' =
                food_counter + Cardinality({i \in Ants : is_loaded[i] /\ ~is_loaded'[i]})
      ]_vars

\* two ants came home in the last call, each after a walk back of more than one tick
RoundTripWitness ==
    /\ Cardinality(in_nest) = 2
    /\ food_counter = 2
    /\ ticks >= 4
    /\ \A i \in in_nest : ~is_loaded[i] /\ age[i] = 0

\* the readings of ant i before the tick
North(i) == NorthPheromone(pheromon, Position(i))
East(i) == EastPheromone(pheromon, Position(i))
South(i) == SouthPheromone(pheromon, Position(i))
West(i) == WestPheromone(pheromon, Position(i))
Highest(i) == MaxPheromones(pheromon, Position(i))
Shift(reading, highest) == IF reading = highest THEN 1 ELSE 0

\* C4: a following ant's next position is its position shifted by one cell in every
\* direction whose reading equals the maximum, all at once: east and north tied give
\* the diagonal cell (row-1, col+1), two opposite directions tied cancel on their axis.
FollowShiftsEveryTie ==
    [][Ticked =>
         \A i \in ind_following_ants' :
             LET pos == Position(i)
                 next == historic_path'[i][age[i] + 1]
                 m == Highest(i)
             IN  /\ m > 0
                 /\ next[1] = pos[1] - Shift(North(i), m) + Shift(South(i), m)
                 /\ next[2] = pos[2] + Shift(East(i), m) - Shift(West(i), m)
                 /\ (East(i) = m /\ North(i) = m /\ South(i) < m /\ West(i) < m)
                        => next = <<pos[1] - 1, pos[2] + 1>>
                 /\ (East(i) = m /\ West(i) = m) => next[2] = pos[2]
                 /\ (North(i) = m /\ South(i) = m) => next[1] = pos[1]
      ]_vars

\* an ant that followed in the last call moved one row up and one column right
FollowWitness ==
    \E i \in ind_following_ants :
        /\ age[i] > 0
        /\ Position(i) = <<PathAt(historic_path[i], age[i] - 1)[1] - 1,
                           PathAt(historic_path[i], age[i] - 1)[2] + 1>>

\* the four directions with their exit bit, their displacement and their reverse
Directions == {DIR_NORTH, DIR_EAST, DIR_WEST, DIR_SOUTH}
ExitBit(dir) ==
    CASE dir = DIR_NORTH -> NORTH [] dir = DIR_EAST -> EAST
      [] dir = DIR_SOUTH -> SOUTH [] dir = DIR_WEST -> WEST
Step(pos, dir) ==
    CASE dir = DIR_NORTH -> <<pos[1] - 1, pos[2]>> [] dir = DIR_EAST -> <<pos[1], pos[2] + 1>>
      [] dir = DIR_SOUTH -> <<pos[1] + 1, pos[2]>> [] dir = DIR_WEST -> <<pos[1], pos[2] - 1>>
Reverse(dir) ==
    CASE dir = DIR_NORTH -> DIR_SOUTH [] dir = DIR_SOUTH -> DIR_NORTH
      [] dir = DIR_EAST -> DIR_WEST [] dir = DIR_WEST -> DIR_EAST
      [] OTHER -> DIR_NONE

\* C5: every move the retry loop commits goes through an open exit of the ant's cell
\* and is not the reverse of the ant's recorded direction, unless the cell has exactly
\* one open exit, and then the reversal through that exit is accepted.
ExploreMoveLegal ==
    [][Ticked =>
         \A i \in ind_exploring_ants' :
             \E dir \in Directions :
                 /\ historic_path'[i][age[i] + 1] = Step(Position(i), dir)
                 /\ HasExit(MazeAt(Position(i)), ExitBit(dir))
                 /\ (directions[i] = DIR_NONE \/ dir # Reverse(directions[i])
                     \/ NbExits(MazeAt(Position(i))) = 1)
                 /\ (i \notin ind_dying_ants' => directions'[i] = dir)
      ]_vars

\* an ant that had entered a cell with a south exit only by moving north has explored
\* its way back south
DeadEndWitness ==
    \E i \in ind_exploring_ants :
        /\ age[i] >= 2
        /\ MazeAt(PathAt(historic_path[i], age[i] - 1)) = SOUTH
        /\ PathAt(historic_path[i], age[i] - 2) = Position(i)
        /\ directions[i] = DIR_SOUTH

\* C6: the retry loop does not livelock: in every cell with an open exit, whatever
\* direction is recorded for the ant, one of the four draws passes the validity test,
\* and every call of advance ends with a valid move for every exploring ant.
RetryLoopEnds ==
    /\ \A r \in 0..(Rows - 1), k \in 0..(Cols - 1), prev \in Directions \cup {DIR_NONE} :
           NbExits(MazeAt(<<r, k>>)) >= 1
               => \E dir \in 0..3 : ValidMove(<<r, k>>, dir, prev)
    /\ pc # "retry"
    /\ \A i \in ind_exploring_ants : valid_moves[i] = 1

\* in the first call an exploring ant needed more than one draw and got a valid move
RetryWitness ==
    /\ ticks = 1
    /\ \E i \in ind_exploring_ants :
           /\ valid_moves[i] = 1
           /\ seeds[i] # NextSeed(NextSeed(NextSeed(i + 1)))

\* C7: at most one of death, food pickup and nest drop-off happens to an ant in a tick
\* (nest and food being different cells), and an ant that dropped off in the return
\* pass is not moved, killed or loaded by the explore pass of the same tick.
OneTransitionPerTick ==
    pos_food # pos_nest =>
        \A i \in Ants :
            /\ ~(i \in in_nest /\ i \in ind_dying_ants)
            /\ ~(i \in in_nest /\ i \in ants_at_food)
            /\ ~(i \in ind_dying_ants /\ i \in ants_at_food)
            /\ i \in in_nest =>
                   /\ i \notin ind_exploring_ants \cup ind_following_ants
                   /\ age[i] = 0 /\ ~is_loaded[i] /\ Position(i) = pos_nest
            /\ i \in ind_dying_ants => ~is_loaded[i] /\ age[i] = 0

\* an ant dropped off in the call in which another ant went through the explore pass
DropOffWitness ==
    \E i \in in_nest : \E j \in ind_exploring_ants \cup ind_following_ants : i # j

\* C8: every seed stays in 1..2147483646 after creation and after any number of
\* applications of the recurrence, in step 2a or in the retry loop.
SeedsPositive == \A i \in Ants : 1 <= seeds[i] /\ seeds[i] <= Modulus - 1

\* the recurrence has been applied in the retry loop and the seeds left the small values
SeedsWitness ==
    /\ ticks >= 2
    /\ ind_exploring_ants # {}
    /\ \A i \in Ants : seeds[i] > 1000000

\* the preconditions of a tick: every position is a cell of the maze, every seed is
\* positive, the colony's arrays have one length
PreconditionViolated ==
    \/ \E i \in Ants : ~InMaze(Position(i))
    \/ \E i \in Ants : seeds[i] <= 0
    \/ ~(DOMAIN age = Ants /\ DOMAIN is_loaded = Ants /\ DOMAIN max_life = Ants
         /\ DOMAIN historic_path = Ants /\ DOMAIN directions = Ants)

\* C10: a tick called on a state that violates a precondition aborts, and leaves the
\* colony's arrays, the pheromone field and the food counter as they were.
FailFast ==
    [][(pc = "advance" /\ ticks' = ticks + 1 /\ PreconditionViolated) =>
           /\ raised'
           /\ UNCHANGED <<colony_vars, pheromon, food_counter>>
      ]_vars
\* the ants an iteration of the retry loop is about: the exploring ants that had no
\* valid move in the state st it started from (line 133)
Unresolved(st) == {i \in ind_exploring_ants : st.valid_moves[i] = 0}

\* C13: an iteration of the retry loop changes the seed, the position history and the
\* direction only of ants still lacking a valid move; for every other ant (resolved
\* explorers, following ants, loaded ants) they are what they were before the iteration.
RetryTouchesOnlyUnresolved ==
    \A k \in 1..(Len(retries) - 1) :
        \A i \in Ants \ Unresolved(retries[k]) :
            /\ retries[k + 1].seeds[i] = retries[k].seeds[i]
            /\ retries[k + 1].historic_path[i] = retries[k].historic_path[i]
            /\ retries[k + 1].directions[i] = retries[k].directions[i]


\* the seeds as step 2a (line 88) left them: the retry loop starts from them
SeedsAfterStep2a == retries[1].seeds

\* C14 as stated: in step 2a of the explore pass the seed recurrence is applied to every
\* ant of the colony, loaded or unloaded.
SeedsAdvanceArrayWide ==
    [][(Ticked /\ retries' # <<>>) =>
           \A i \in Ants : SeedsAfterStep2a'[i] = NextSeed(seeds[i])
      ]_vars

\* C14, amended: step 2a applies the seed recurrence to the ants that are unloaded when
\* the tick starts and leaves the seed of every loaded ant as it was.
SeedsAdvanceUnloadedOnly ==
    [][(Ticked /\ retries' # <<>>) =>
           \A i \in Ants :
               SeedsAfterStep2a'[i] =
                   IF is_loaded[i] = UNLOADED THEN NextSeed(seeds[i]) ELSE seeds[i]
      ]_vars

\* step 2a ran in a call in which one ant was loaded: it is still walking back
Step2aWitness ==
    /\ retries # <<>>
    /\ \E i \in Ants : is_loaded[i] /\ i \notin ants_at_food /\ i \notin in_nest

\* C15: after any tick in which an unloaded ant changes cell, by exploring or by
\* following the pheromone, its direction is the direction of that move.
DirectionIsLastMove ==
    [][Ticked =>
           \A i \in Ants :
               (/\ is_loaded[i] = UNLOADED
                /\ i \notin ind_dying_ants'
                /\ historic_path'[i][age[i] + 1] # Position(i))
                   => \E dir \in Directions :
                          /\ historic_path'[i][age[i] + 1] = Step(Position(i), dir)
                          /\ directions'[i] = dir
      ]_vars

\* the iterations of the last retry loop in which ant i got its valid move
Resolving(i) ==
    {k \in 1..(Len(retries) - 1) :
        retries[k].valid_moves[i] = 0 /\ retries[k + 1].valid_moves[i] = 1}

\* C16: in a tick every unloaded ant is exploring or following and not both; it explores
\* exactly when its choice seed/2147483647 (the seed as step 2a left it) is at most
\* exploration_coefs or the highest of its four readings is 0; one next position is
\* recorded for it, at index age + 1, and then its age goes up by one.
ClassifiedOnce ==
    [][Ticked =>
           /\ ind_exploring_ants' \cup ind_following_ants' = {i \in Ants : is_loaded[i] = UNLOADED}
           /\ ind_exploring_ants' \cap ind_following_ants' = {}
           /\ \A i \in Ants :
                  is_loaded[i] = UNLOADED =>
                      /\ i \in ind_exploring_ants' <=>
                             (\/ NextSeed(seeds[i]) <= exploration_coefs * Modulus
                              \/ Highest(i) = 0)
                      /\ i \in ind_exploring_ants' => Cardinality(Resolving(i)') = 1
                      /\ \A k \in DOMAIN historic_path[i] \ {0, age[i] + 1} :
                             historic_path'[i][k] = historic_path[i][k]
                      /\ i \notin ind_dying_ants' =>
                             /\ age'[i] = age[i] + 1
                             /\ historic_path'[i][0] = historic_path[i][0]
                             /\ historic_path'[i][age'[i]] # Position(i)
                                    \/ i \in ind_following_ants'
      ]_vars

\* one ant explored and another followed the pheromone in the same call
ClassifiedWitness == ind_exploring_ants # {} /\ ind_following_ants # {}

\* C17: the return pass takes exactly one off the age of every loaded ant and of no
\* other ant; a loaded ant whose position at the new age is the nest becomes unloaded
\* with age 0; the counter handed back is the counter passed in plus the number of ants
\* that unloaded in the tick, so it never goes down.
ReturnPass ==
    [][Ticked =>
           /\ in_nest' = {i \in Ants : is_loaded[i] = LOADED
                                       /\ PathAt(historic_path[i], age[i] - 1) = pos_nest}
           /\ \A i \in Ants :
                  /\ (is_loaded[i] = LOADED /\ i \notin in_nest') =>
                         age'[i] = age[i] - 1 /\ is_loaded'[i] = LOADED
                  /\ i \in in_nest' => age'[i] = 0 /\ is_loaded'[i] = UNLOADED
                  /\ is_loaded[i] = UNLOADED => age'[i] \in {age[i] + 1, 0}
                  /\ (is_loaded[i] = UNLOADED /\ age'[i] = 0) => i \in ind_dying_ants'
           /\ food_counter' = food_counter + Cardinality(in_nest')
           /\ food_counter' >= food_counter
      ]_vars

\* two ants unloaded on the nest in the same call
ReturnWitness == Cardinality(in_nest) = 2 /\ food_counter >= 2

\* C18: after the age increment of a tick every ant whose age equals its max_life is
\* reset: age 0, position the nest, direction NONE; it stays unloaded and the reset adds
\* nothing to the food counter.  An ant whose age differs from max_life is not reset.
DeathReset ==
    [][Ticked =>
           /\ ind_dying_ants' = {i \in Ants : is_loaded[i] = UNLOADED
                                              /\ age[i] + 1 = max_life[i]}
           /\ \A i \in ind_dying_ants' :
                  /\ age'[i] = 0
                  /\ PathAt(historic_path'[i], age'[i]) = pos_nest
                  /\ directions'[i] = DIR_NONE
                  /\ is_loaded'[i] = UNLOADED
                  /\ i \notin in_nest'
           /\ \A i \in Ants \ ind_dying_ants' :
                  /\ is_loaded[i] = UNLOADED => age'[i] = age[i] + 1
                  /\ historic_path'[i][0] = historic_path[i][0]
           /\ food_counter' = food_counter + Cardinality(in_nest')
      ]_vars

\* an ant died on the food cell after moving there in its last tick of life
DeathWitness ==
    \E i \in ind_dying_ants :
        /\ max_life[i] >= 2
        /\ historic_path[i][max_life[i]] = pos_food
        /\ ~is_loaded[i]

\* the open exits of a cell, and the cell reached by one step in each direction of dirs
OpenExits(pos) == {dir \in Directions : HasExit(MazeAt(pos), ExitBit(dir))}
Displaced(pos, dirs) ==
    <<pos[1] - (IF DIR_NORTH \in dirs THEN 1 ELSE 0) + (IF DIR_SOUTH \in dirs THEN 1 ELSE 0),
      pos[2] + (IF DIR_EAST \in dirs THEN 1 ELSE 0) - (IF DIR_WEST \in dirs THEN 1 ELSE 0)>>

\* C19: a following ant never moves in a direction whose exit is closed: its move is
\* made of steps through open exits of its cell only, whatever the pheromone field
\* holds behind its walls.
FollowThroughOpenExits ==
    [][Ticked =>
           \A i \in ind_following_ants' :
               /\ Highest(i) > 0
               /\ \E dirs \in (SUBSET OpenExits(Position(i))) \ {{}} :
                      historic_path'[i][age[i] + 1] = Displaced(Position(i), dirs)
      ]_vars

\* an ant followed the pheromone out of a cell that has a wall with the food, whose
\* pheromone is the highest there is, right behind it
ClosedExitWitness ==
    \E i \in ind_following_ants :
        /\ age[i] >= 1
        /\ \E dir \in Directions \ OpenExits(historic_path[i][age[i] - 1]) :
               Step(historic_path[i][age[i] - 1], dir) = pos_food

\* C11: what returns() hands out are copies or immutable views: a write by their
\* holder to the direction, path-history or age array it was given never changes the
\* colony's own arrays, which the next tick reads.
SnapshotIsACopy ==
    [][receiver_writes' # receiver_writes => UNCHANGED colony_vars]_vars

\* the messages of the frame the display is receiving or has just completed
Received(tag) == tag \in DOMAIN frame

\* C12: every frame the display draws reflects one completed tick: the pheromone map
\* (tag 7), the snapshot (tag 6) and the food counter (tag 5) it receives for its n-th
\* frame were all sent after the worker's n-th call of advance and before its next, and
\* while the worker has not called advance again they are what the worker holds.
FrameOfOneTick ==
    /\ (pc0 = "recv6" /\ Received(7)) => frame[7].tick = nb_frames + 1
    /\ (pc0 = "recv5" /\ Received(6)) =>
           frame[7].tick = nb_frames + 1 /\ frame[6].tick = nb_frames + 1
    /\ (pc0 = "recv7" /\ nb_frames >= 1) =>
           /\ frame[7].tick = nb_frames /\ frame[6].tick = nb_frames
           /\ frame[5].tick = nb_frames
           /\ (ticks = nb_frames /\ pc # "advance") =>
                  /\ frame[6].value = <<directions, historic_path, age>>
                  /\ frame[5].value = food_counter
                  /\ frame[7].value = pheromon

\* the display has completed a frame while the worker is two calls of advance ahead,
\* in a tick in which its ant moved
FrameWitness ==
    /\ pc0 = "recv7" /\ nb_frames >= 1
    /\ ticks >= nb_frames + 2
    /\ \E i \in Ants : frame[6].value[3][i] # age[i]

\* with two processes the messages reach rank 0 in the order it receives them
HeadMatches == (nbp = 2 /\ chan[1] # <<>>) => Head(chan[1]).tag = Tag(pc0)

\* with one process the first receive of rank 0 is never matched; with three, no send
\* of rank 2 is ever matched, and its first send never returns unless the library
\* takes the message
NeverMatched ==
    /\ nbp = 1 => pc0 = DisplayStart[1] /\ frame = <<>>
    /\ nbp >= 3 => Len(chan[2]) = extra.sent /\ (~eager => extra.sent = 0)

\* C20: with exactly two processes the display and the worker send and receive in
\* matching order (tags 8, 1, 2, 3, 4 at start-up, then 7, 6, 5 in every iteration) and
\* neither waits forever: the display completes a frame for every call of advance.  With
\* another number of processes some send or receive is never matched.
MessagesMatch ==
    /\ []HeadMatches
    /\ []NeverMatched
    /\ (nbp = 2) ~> (nb_frames = MaxTicks)

\* with sends that wait for their receive, the display has completed two frames
MatchWitness == nbp = 2 /\ ~eager /\ nb_frames >= 2 /\ pc0 = "recv6"

====
